---- MODULE Spec2Model ----
(***************************************************************************)
(* A model of ExamBulldozer's conversion pipeline: token-budget batch      *)
(* planning and per-batch dispatch (src/app.py, App.render_main) and reply *)
(* normalisation and validation (src/json_processor.py, JSONProcessor).    *)
(***************************************************************************)
EXTENDS Integers, Sequences, FiniteSets, TLC

\* ------------------------------------------------------------------------
\* Bounds of the model
\* ------------------------------------------------------------------------
MaxUnits == 3
MaxCost == 3
MaxBudget == 3
MaxPrompt == 2
MaxItems == 3
MaxOptions == 27
MaxKeys == 3
MaxText == 6
MaxOps == 3

\* ------------------------------------------------------------------------
\* Program constants
\* ------------------------------------------------------------------------
DeepseekMaxTokens == 16000
QwenMaxTokens == 8000
DefaultMaxTokens == 4000
SafetyMarginPct == 15

VARIABLES
    pc,                 \* position of render_main: "idle", "plan", "dispatch"
    model_type,         \* the model type chosen in the sidebar
    batch_token_limit,  \* app.py:208
    questions,          \* app.py:202, the question units in source order
    qi,                 \* position of the planning loop in questions
    batches,            \* app.py:209
    current_batch,      \* app.py:210
    current_tokens,     \* app.py:211
    schema,             \* JSONProcessor.schema, the question type's schema document
    errors,             \* JSONProcessor.errors
    json_str,           \* the text handed to the last process_json call
    ret,                \* what the last process_json call returned (JNull: None)
    exc,                \* the exception that escaped the last process_json call
    errors_before,      \* JSONProcessor.errors when the last call began
    consumed,           \* number of reply elements the processor has been handed
    api_key,            \* the credential entered in the sidebar
    idx,                \* app.py:223, index of the batch to handle next (from 0)
    all_results,        \* app.py:222
    processed_data,     \* st.session_state.processed_data (JNull: None)
    shown,              \* what the run has displayed, one entry per message
    api_calls,          \* batch indices call_api was invoked for, in call order
    used,               \* question units handed to runs since the page was opened
    call,               \* the last call of a function taken alone: its name, arguments, outcome
    schemas,            \* SchemaManager.schemas of each SchemaManager instance
    schemas_file,       \* the content of schemas.json
    live,               \* per instance: the types loaded or added and not deleted since
    added,              \* the types some instance added and none deleted since
    ops,                \* number of repository calls and loads made
    config              \* ConfigManager.config["api_keys"]

planvars == <<model_type, batch_token_limit, questions, qi, batches,
              current_batch, current_tokens>>
procvars == <<schema, errors, json_str, ret, exc, errors_before, consumed>>
runvars == <<api_key, idx, all_results, processed_data, shown, api_calls, used>>
repovars == <<schemas, schemas_file, live, added, ops>>
sidevars == <<call, repovars, config>>
vars == <<pc, planvars, procvars, runvars, sidevars>>

\* ------------------------------------------------------------------------
\* Helpers
\* ------------------------------------------------------------------------
RECURSIVE Flatten(_)
Flatten(ss) == IF ss = <<>> THEN <<>> ELSE Head(ss) \o Flatten(Tail(ss))

IsPrefix(a, b) == Len(a) <= Len(b) /\ SubSeq(b, 1, Len(a)) = a

RECURSIVE SumTokens(_)
SumTokens(b) == IF b = <<>> THEN 0 ELSE Head(b).tokens + SumTokens(Tail(b))

\* A question unit is a span of text; the model keeps its position in the
\* source text and the token count the tokenizer gives for it.
MkUnits(costs) == [i \in 1..Len(costs) |-> [id |-> i, tokens |-> costs[i]]]

ModelTypes == {"deepseek", "qwen"}

\* ------------------------------------------------------------------------
\* JSON values as json.loads builds them. A value is a record of a type tag
\* t and a payload v; an object keeps its entries in insertion order as a
\* sequence of <<key, value>> pairs with distinct keys, as a Python dict does.
\* ------------------------------------------------------------------------
JNull == [t |-> "null", v |-> <<>>]
JBool(b) == [t |-> "bool", v |-> b]
JNum(n) == [t |-> "num", v |-> n]
JStr(s) == [t |-> "str", v |-> s]
JList(l) == [t |-> "list", v |-> l]
JDict(es) == [t |-> "dict", v |-> es]

Keys(d) == { d.v[i][1] : i \in 1..Len(d.v) }
HasKey(d, k) == \E i \in 1..Len(d.v) : d.v[i][1] = k
Get(d, k) == d.v[CHOOSE i \in 1..Len(d.v) : d.v[i][1] = k][2]

\* d[k] = val on a Python dict: an existing key keeps its place.
Put(d, k, val) ==
    IF HasKey(d, k)
    THEN JDict([i \in 1..Len(d.v) |-> IF d.v[i][1] = k THEN <<k, val>> ELSE d.v[i]])
    ELSE JDict(Append(d.v, <<k, val>>))

\* Python truthiness of a value, None being JNull.
Truthy(x) ==
    CASE x.t = "null" -> FALSE
      [] x.t = "bool" -> x.v
      [] x.t = "num"  -> x.v # 0
      [] x.t = "str"  -> x.v # ""
      [] x.t = "list" -> x.v # <<>>
      [] x.t = "dict" -> x.v # <<>>

\* str.swapcase() in the place of str.upper()
Upper_SwapCase(s) ==
    CASE s = "a" -> "A"
      [] s = "b" -> "B"
      [] s = "c" -> "C"
      [] s = "f" -> "F"
      [] s = "A" -> "a"
      [] s = "B" -> "b"
      [] s = "C" -> "c"
      [] OTHER   -> s

\* str.upper() on the strings of the model.
Upper(s) ==
    CASE s = "a" -> "A"
      [] s = "b" -> "B"
      [] s = "c" -> "C"
      [] s = "f" -> "F"
      [] OTHER   -> s

\* Letters[i + 1] is chr(65 + i) for the i of json_processor.py:36.
Letters == <<"A", "B", "C", "D", "E", "F", "G", "H", "I", "J", "K", "L", "M",
             "N", "O", "P", "Q", "R", "S", "T", "U", "V", "W", "X", "Y", "Z">>

\* re.search("^[A-E]$", s) on the strings of the model.
MatchesAE(s) == s \in {"A", "B", "C", "D", "E"}

\* ------------------------------------------------------------------------
\* src/schema_manager.py: the built-in schema documents, as Draft-7
\* validation of an instance against each of them.
\* ------------------------------------------------------------------------
IsStr(x) == x.t = "str"

\* the "options" property schema of single_choice and multiple_choice
ValidOptions(o) ==
    /\ o.t = "dict"
    /\ \A i \in 1..Len(o.v) : MatchesAE(o.v[i][1]) => IsStr(o.v[i][2])
    /\ Len(o.v) >= 2
    /\ Len(o.v) <= 5

ValidSingleChoice(x) ==
    /\ x.t = "dict"
    /\ HasKey(x, "question") => IsStr(Get(x, "question"))
    /\ HasKey(x, "options") => ValidOptions(Get(x, "options"))
    /\ HasKey(x, "answer") => (IsStr(Get(x, "answer")) /\ MatchesAE(Get(x, "answer").v))
    /\ HasKey(x, "analysis") => IsStr(Get(x, "analysis"))
    /\ {"question", "options", "answer"} \subseteq Keys(x)
    /\ Keys(x) \subseteq {"question", "options", "answer", "analysis"}

ValidMultipleChoice(x) ==
    /\ x.t = "dict"
    /\ HasKey(x, "question") => IsStr(Get(x, "question"))
    /\ HasKey(x, "options") => ValidOptions(Get(x, "options"))
    /\ HasKey(x, "answer") =>
          LET a == Get(x, "answer")
          IN /\ a.t = "list"
             /\ \A i \in 1..Len(a.v) : IsStr(a.v[i]) /\ MatchesAE(a.v[i].v)
             /\ Len(a.v) >= 1
             /\ \A i, j \in 1..Len(a.v) : i # j => a.v[i] # a.v[j]
    /\ HasKey(x, "analysis") => IsStr(Get(x, "analysis"))
    /\ {"question", "options", "answer"} \subseteq Keys(x)
    /\ Keys(x) \subseteq {"question", "options", "answer", "analysis"}

ValidTrueFalse(x) ==
    /\ x.t = "dict"
    /\ HasKey(x, "question") => IsStr(Get(x, "question"))
    /\ HasKey(x, "answer") => Get(x, "answer").t = "bool"
    /\ HasKey(x, "analysis") => IsStr(Get(x, "analysis"))
    /\ {"question", "answer"} \subseteq Keys(x)
    /\ Keys(x) \subseteq {"question", "answer", "analysis"}

SchemaTypes == {"single_choice", "multiple_choice", "true_false"}

\* A question type stored in schemas.json whose schema document is not a
\* Draft-7 schema, such as {"type": "foo"}: _load_schemas and update_schema
\* store a document without checking it.
MalformedType == "malformed"

\* The question types a run can be started for.

\* Draft7Validator.check_schema(schema) does not raise
WellFormed(sch) == sch \in SchemaTypes

\* self.validator.validate(x) raises an exception other than ValidationError:
\* the validator of a malformed document meets a keyword value it cannot use.
ValidatorRaises(sch) == sch = MalformedType

\* self.validator.validate(x) does not raise ValidationError
SchemaAccepts(sch, x) ==
    CASE sch = "single_choice"   -> ValidSingleChoice(x)
      [] sch = "multiple_choice" -> ValidMultipleChoice(x)
      [] sch = "true_false"      -> ValidTrueFalse(x)
      [] OTHER                   -> FALSE

\* ------------------------------------------------------------------------
\* src/json_processor.py
\* ------------------------------------------------------------------------
\* An entry of self.errors: the kind of message and the value it is about.
ParseError == [kind |-> "parse", about |-> JNull]                \* "JSON解析失败"
ItemError(x) == [kind |-> "item", about |-> x]                   \* "处理项目失败"
SchemaViolation(x) == [kind |-> "validation", about |-> x]       \* str(ValidationError)
ValidationFailed(x) == [kind |-> "validation_failed", about |-> x]  \* "验证失败"

\* A reply text: whether it is well-formed JSON and the value it denotes.
JsonText(x) == [wellformed |-> TRUE, value |-> x, empty |-> FALSE]
Garbage == [wellformed |-> FALSE, value |-> JNull, empty |-> FALSE]
EmptyText == [wellformed |-> FALSE, value |-> JNull, empty |-> TRUE]

\* json.loads
json_loads(text) ==
    IF text.wellformed THEN [raised |-> "none", v |-> text.value]
    ELSE [raised |-> "JSONDecodeError", v |-> JNull]

\* _validate_json: the error list is emptied, then the first instance the
\* schema rejects is recorded.
RECURSIVE FirstRejected(_, _)
FirstRejected(sch, l) ==
    IF l = <<>> THEN 0
    ELSE IF ~SchemaAccepts(sch, Head(l)) THEN 1
    ELSE LET r == FirstRejected(sch, Tail(l)) IN IF r = 0 THEN 0 ELSE r + 1

RejectedAt(data, r) ==
    IF r = 0 THEN [ok |-> TRUE, errors |-> <<>>]
    ELSE [ok |-> FALSE, errors |-> <<SchemaViolation(data.v[r])>>]

\* json_processor.py:28-30: the validator itself fails on the first instance
ValidatorFault(data) ==
    IF data.t = "list"
    THEN IF data.v = <<>> THEN [ok |-> TRUE, errors |-> <<>>]
         ELSE [ok |-> FALSE, errors |-> <<ValidationFailed(data.v[1])>>]
    ELSE [ok |-> FALSE, errors |-> <<ValidationFailed(data)>>]

validate_json(data, sch) ==
    IF ValidatorRaises(sch) THEN ValidatorFault(data)
    ELSE IF data.t = "list" THEN RejectedAt(data, FirstRejected(sch, data.v))
    ELSE IF SchemaAccepts(sch, data) THEN [ok |-> TRUE, errors |-> <<>>]
    ELSE [ok |-> FALSE, errors |-> <<SchemaViolation(data)>>]

Min(a, b) == IF a <= b THEN a ELSE b

RECURSIVE UpperKeys(_, _)
UpperKeys(es, acc) ==
    IF es = <<>> THEN acc
    ELSE UpperKeys(Tail(es), Put(acc, Upper(Head(es)[1]), Head(es)[2]))

\* _format_options with the cut of json_processor.py:36 one entry early
format_options_Cap25(options) ==
    IF options.t = "list"
    THEN [raised |-> FALSE,
          v |-> JDict([i \in 1..Min(Len(options.v), 25) |-> <<Letters[i], options.v[i]>>])]
    ELSE IF options.t = "dict"
    THEN [raised |-> FALSE, v |-> UpperKeys(options.v, JDict(<<>>))]
    ELSE [raised |-> TRUE, v |-> JNull]

\* _format_options
format_options(options) ==
    IF options.t = "list"
    THEN [raised |-> FALSE,
          v |-> JDict([i \in 1..Min(Len(options.v), 26) |-> <<Letters[i], options.v[i]>>])]
    ELSE IF options.t = "dict"
    THEN [raised |-> FALSE, v |-> UpperKeys(options.v, JDict(<<>>))]
    ELSE [raised |-> TRUE, v |-> JNull]

\* _format_answer with the boolean branch turned into text, as str(answer).upper()
format_answer_BoolAsText(answer) ==
    IF answer.t = "str" THEN [raised |-> FALSE, v |-> JStr(Upper(answer.v))]
    ELSE IF answer.t = "list"
    THEN IF \A i \in 1..Len(answer.v) : answer.v[i].t = "str"
         THEN [raised |-> FALSE,
               v |-> JList([i \in 1..Len(answer.v) |-> JStr(Upper(answer.v[i].v))])]
         ELSE [raised |-> TRUE, v |-> JNull]
    ELSE IF answer.t = "bool"
    THEN [raised |-> FALSE, v |-> JStr(IF answer.v THEN "TRUE" ELSE "FALSE")]
    ELSE [raised |-> TRUE, v |-> JNull]

\* _format_answer
format_answer(answer) ==
    IF answer.t = "str" THEN [raised |-> FALSE, v |-> JStr(Upper(answer.v))]
    ELSE IF answer.t = "list"
    THEN IF \A i \in 1..Len(answer.v) : answer.v[i].t = "str"
         THEN [raised |-> FALSE,
               v |-> JList([i \in 1..Len(answer.v) |-> JStr(Upper(answer.v[i].v))])]
         ELSE [raised |-> TRUE, v |-> JNull]
    ELSE IF answer.t = "bool" THEN [raised |-> FALSE, v |-> answer]
    ELSE [raised |-> TRUE, v |-> JNull]

\* k in item, for a dict (its keys) and for a list (its elements)
Contains(item, k) ==
    IF item.t = "dict" THEN HasKey(item, k)
    ELSE \E i \in 1..Len(item.v) : item.v[i].t = "str" /\ item.v[i].v = k

NotRaised == [raised |-> FALSE, v |-> JNull]

\* the except clause of _process_single_item
ItemFault(item, errs) == [ret |-> JNull, errors |-> Append(errs, ItemError(item))]

\* json_processor.py:94-96 on the formatted item p2
ValidatedItem(p2, val) == [ret |-> IF val.ok THEN p2 ELSE JNull, errors |-> val.errors]

\* json_processor.py:90-96: a is what _format_answer made of p1's answer
AfterAnswer(item, p1, a, errs, sch) ==
    IF a.raised THEN ItemFault(item, errs)
    ELSE IF Contains(p1, "answer")
    THEN ValidatedItem(Put(p1, "answer", a.v), validate_json(Put(p1, "answer", a.v), sch))
    ELSE ValidatedItem(p1, validate_json(p1, sch))

\* json_processor.py:90-91 on p1, the item with its options formatted
FormatAnswerOf(item, p1, errs, sch) ==
    AfterAnswer(item, p1,
                IF Contains(p1, "answer") THEN format_answer(Get(p1, "answer")) ELSE NotRaised,
                errs, sch)

\* json_processor.py:86-87: o is what _format_options made of the item's options
AfterOptions(item, o, errs, sch) ==
    IF o.raised THEN ItemFault(item, errs)
    ELSE FormatAnswerOf(item,
                        IF Contains(item, "options") THEN Put(item, "options", o.v) ELSE item,
                        errs, sch)

\* _process_single_item: the value returned (JNull for None) and the error
\* list it leaves.
process_single_item(item, errs, sch) ==
    IF item.t \notin {"dict", "list"} THEN ItemFault(item, errs)
    ELSE IF item.t = "list" /\ (Contains(item, "options") \/ Contains(item, "answer"))
    THEN ItemFault(item, errs)
    ELSE AfterOptions(item,
                      IF Contains(item, "options") THEN format_options(Get(item, "options"))
                      ELSE NotRaised,
                      errs, sch)

\* the loop of process_json over the elements of a list reply
RECURSIVE ProcessItems(_, _, _, _)
\* json_processor.py:65-66 on r, what _process_single_item returned
KeepIfTruthy(rest, r, kept, sch) ==
    ProcessItems(rest, r.errors, IF Truthy(r.ret) THEN Append(kept, r.ret) ELSE kept, sch)

ProcessItems(items, errs, kept, sch) ==
    IF items = <<>> THEN [processed_data |-> kept, errors |-> errs]
    ELSE KeepIfTruthy(Tail(items), process_single_item(Head(items), errs, sch), kept, sch)

\* json_processor.py:67
ListResult(r) ==
    [ret |-> IF r.processed_data # <<>> THEN JList(r.processed_data) ELSE JNull,
     errors |-> r.errors, exc |-> "none"]

\* json_processor.py:70
SingleResult(r) == [ret |-> r.ret, errors |-> r.errors, exc |-> "none"]

\* ProcessParsed as it would be with no handler for json.JSONDecodeError.
ProcessParsed_NoParseHandler(parsed, errs, sch) ==
    IF parsed.raised = "JSONDecodeError"
    THEN [ret |-> JNull, errors |-> errs, exc |-> "JSONDecodeError"]
    ELSE IF parsed.v.t = "list" THEN ListResult(ProcessItems(parsed.v.v, errs, <<>>, sch))
    ELSE SingleResult(process_single_item(parsed.v, errs, sch))

\* json_processor.py:59-77 on what json.loads gave
ProcessParsed(parsed, errs, sch) ==
    IF parsed.raised = "JSONDecodeError"
    THEN [ret |-> JNull, errors |-> Append(errs, ParseError), exc |-> "none"]
    ELSE IF parsed.v.t = "list" THEN ListResult(ProcessItems(parsed.v.v, errs, <<>>, sch))
    ELSE SingleResult(process_single_item(parsed.v, errs, sch))

\* process_json: the value returned (JNull for None), the error list it
\* leaves and the exception that escapes it ("none": none).
process_json(text, errs, sch) == ProcessParsed(json_loads(text), errs, sch)

\* ------------------------------------------------------------------------
\* src/api_caller.py
\* ------------------------------------------------------------------------
Models(mt) ==
    IF mt = "deepseek" THEN {"deepseek-chat", "deepseek-coder"}
    ELSE IF mt = "qwen" THEN {"qwen-turbo", "qwen-plus", "qwen-max"}
    ELSE {}

\* What requests.post can do: time out, fail in transport, or answer with a
\* status; a 200 answer has a body that holds the content or lacks it.
Timeout == [kind |-> "timeout", status |-> 0, body_ok |-> FALSE, content |-> EmptyText]
TransportFault == [kind |-> "transport", status |-> 0, body_ok |-> FALSE, content |-> EmptyText]
Answer(status) == [kind |-> "answer", status |-> status, body_ok |-> FALSE, content |-> EmptyText]
Completion(text) == [kind |-> "answer", status |-> 200, body_ok |-> TRUE, content |-> text]

\* _call_deepseek and _call_qwen: every exception raised inside the try block,
\* the two the block raises itself included, leaves as APIError.
call_provider(mt, mdl, http) ==
    IF mdl \notin Models(mt) THEN [raised |-> "APIError", v |-> EmptyText]
    ELSE IF http.kind = "timeout" THEN [raised |-> "APIError", v |-> EmptyText]
    ELSE IF http.kind = "transport" THEN [raised |-> "APIError", v |-> EmptyText]
    ELSE IF http.status = 200
         THEN IF http.body_ok THEN [raised |-> "none", v |-> http.content]
              ELSE [raised |-> "APIError", v |-> EmptyText]
    ELSE [raised |-> "APIError", v |-> EmptyText]

\* call_api
call_api(mt, key, mdl, http) ==
    IF mt \notin {"deepseek", "qwen"} THEN [raised |-> "ModelNotSupportedError", v |-> EmptyText]
    ELSE IF key = "" THEN [raised |-> "APIKeyError", v |-> EmptyText]
    ELSE call_provider(mt, mdl, http)

\* ------------------------------------------------------------------------
\* src/app.py
\* ------------------------------------------------------------------------
count_tokens(q) == q.tokens

get_model_max_tokens(mt) ==
    IF mt = "deepseek" THEN DeepseekMaxTokens
    ELSE IF mt = "qwen" THEN QwenMaxTokens
    ELSE DefaultMaxTokens

\* int(max_tokens * (1 - safety_margin)) - prompt_tokens - schema_tokens
BatchTokenLimit(max_tokens, prompt_tokens, schema_tokens) ==
    ((max_tokens * (100 - SafetyMarginPct)) \div 100) - prompt_tokens - schema_tokens

\* The fixed costs the model draws: a prompt of a few tokens and a schema
\* whose size leaves a budget around zero or a few tokens.
SchemaTokenChoices(mt, prompt_tokens) ==
    { ((get_model_max_tokens(mt) * (100 - SafetyMarginPct)) \div 100) - prompt_tokens - b :
        b \in (0 - 1)..MaxBudget }

\* Faulty variants of ClosesBatch: the test without its non-empty guard, the test
\* that forgets the cost of the incoming unit, and the test that lets an
\* oversized unit through without closing.
ClosesBatch_NoGuard(cur_tokens, q_tokens, limit, cur_batch) ==
    cur_tokens + q_tokens > limit

ClosesBatch_IgnoresUnit(cur_tokens, q_tokens, limit, cur_batch) ==
    cur_tokens > limit /\ cur_batch # <<>>

ClosesBatch_FittingOnly(cur_tokens, q_tokens, limit, cur_batch) ==
    q_tokens <= limit /\ cur_tokens + q_tokens > limit /\ cur_batch # <<>>

\* The test of app.py:214 that closes the current batch before unit q.
ClosesBatch(cur_tokens, q_tokens, limit, cur_batch) ==
    cur_tokens + q_tokens > limit /\ cur_batch # <<>>

\* One iteration of the loop of app.py:212-219 on unit q.
PlanUnit ==
    /\ pc = "plan"
    /\ qi <= Len(questions)
    /\ LET q == questions[qi]
           q_tokens == count_tokens(q)
           closes == ClosesBatch(current_tokens, q_tokens, batch_token_limit, current_batch)
       IN /\ batches' = IF closes THEN Append(batches, current_batch) ELSE batches
          /\ current_batch' = Append(IF closes THEN <<>> ELSE current_batch, q)
          /\ current_tokens' = (IF closes THEN 0 ELSE current_tokens) + q_tokens
    /\ qi' = qi + 1
    /\ UNCHANGED <<pc, model_type, batch_token_limit, questions, procvars, runvars, sidevars>>

\* app.py:220-221, the end of planning.
PlanClose ==
    /\ pc = "plan"
    /\ qi > Len(questions)
    /\ batches' = IF current_batch # <<>> THEN Append(batches, current_batch) ELSE batches
    /\ pc' = "dispatch"
    /\ all_results' = <<>>
    /\ idx' = 0
    /\ UNCHANGED <<model_type, batch_token_limit, questions, qi, current_batch, current_tokens,
                   procvars, api_key, processed_data, shown, api_calls, used, sidevars>>

\* ------------------------------------------------------------------------
\* The replies the model draws
\* ------------------------------------------------------------------------
Question == <<"question", JStr("q")>>
OptionsAB == JDict(<< <<"A", JStr("x")>>, <<"B", JStr("y")>> >>)

\* a single-choice record in canonical form
RecGood == JDict(<< Question, <<"options", OptionsAB>>, <<"answer", JStr("A")>> >>)
\* the same question with options as a list and a lower-case answer
RecLower == JDict(<< Question, <<"options", JList(<<JStr("x"), JStr("y")>>)>>,
                     <<"answer", JStr("b")>> >>)
\* answer outside ^[A-E]$
RecF == JDict(<< Question, <<"options", OptionsAB>>, <<"answer", JStr("F")>> >>)

\* The elements of replies: the three records above; a record without its
\* required answer; one with options of an unrecognised shape; a true/false
\* record; a multiple-choice record with lower-case answers; a string, a
\* nested list and an empty list.
Elements ==
    << RecGood, RecLower, RecF,
       JDict(<< Question, <<"options", OptionsAB>> >>),
       JDict(<< Question, <<"options", JNum(1)>>, <<"answer", JStr("A")>> >>),
       JDict(<< Question, <<"answer", JBool(TRUE)>> >>),
       JDict(<< Question, <<"options", OptionsAB>>,
                <<"answer", JList(<<JStr("a"), JStr("b")>>)>> >>),
       JStr("x"), JList(<<RecGood>>), JList(<<>>) >>

ListReply(ix) == JsonText(JList([i \in 1..Len(ix) |-> Elements[ix[i]]]))

\* The replies and service outcomes a run draws for a batch.
RunReplies ==
    { Garbage,
      ListReply(<<1, 3>>),
      ListReply(<<3>>),
      ListReply(<<2>>),
      ListReply(<<2, 1>>),
      \* answer C with options A and B only; options keyed A and C, a gap at B
      JsonText(JList(<<
          JDict(<< Question, <<"options", OptionsAB>>, <<"answer", JStr("C")>> >>),
          JDict(<< Question,
                   <<"options", JDict(<< <<"A", JStr("x")>>, <<"C", JStr("y")>> >>)>>,
                   <<"answer", JStr("A")>> >>) >>)),
      JsonText(RecGood) }

HttpOutcomes ==
    {Timeout, TransportFault, Answer(401), Answer(500), Answer(200), Completion(EmptyText)}
        \cup { Completion(t) : t \in RunReplies }

\* ------------------------------------------------------------------------
\* src/app.py: the run
\* ------------------------------------------------------------------------
\* The size of a reply: the number of elements process_json handles.
Size(text) ==
    IF text.wellformed /\ text.value.t = "list" /\ text.value.v # <<>>
    THEN Len(text.value.v) ELSE 1

\* One entry of what the run displays for a batch: the message kind, the API
\* response shown in the expander and the formatted errors shown with it.
Message(batch, kind, response, reported) ==
    [batch |-> batch, kind |-> kind, response |-> response, reported |-> reported]

\* Faulty variant of Handles: a try statement that names two service errors only.
Handles_NamedOnly(e) == e \in {"ModelNotSupportedError", "APIKeyError"}

\* The exceptions the handlers of app.py:251-254 catch: the three service
\* errors by name, and every other Exception.
Handles(e) == e \in {"APIError", "ModelNotSupportedError", "APIKeyError"} \/ TRUE

Untouched(errs) == [ret |-> JNull, errors |-> errs, exc |-> "none"]

NoRecords(msg, errs) ==
    [msg |-> msg, add |-> <<>>, processed |-> FALSE, r |-> Untouched(errs), escapes |-> FALSE]

\* app.py:241-250 on r, what process_json returned or raised
HandleProcessed(batch, text, r) ==
    IF r.exc = "JSONDecodeError"
    THEN [msg |-> Message(batch, "json_decode", text, <<>>), add |-> <<>>,
          processed |-> TRUE, r |-> r, escapes |-> FALSE]
    ELSE IF r.exc # "none"
    THEN [msg |-> Message(batch, "json_exception", text, <<>>), add |-> <<>>,
          processed |-> TRUE, r |-> r, escapes |-> FALSE]
    ELSE IF Truthy(r.ret)
    THEN [msg |-> Message(batch, "success", text, <<>>),
          add |-> IF r.ret.t = "list" THEN r.ret.v ELSE <<r.ret>>,
          processed |-> TRUE, r |-> r, escapes |-> FALSE]
    ELSE [msg |-> Message(batch, "json_failed", text, r.errors), add |-> <<>>,
          processed |-> TRUE, r |-> r, escapes |-> FALSE]

\* app.py:234-254 on api_response, what call_api returned or raised
HandleResponse(batch, api_response, errs, sch) ==
    IF api_response.raised # "none" /\ ~Handles(api_response.raised)
    THEN [msg |-> Message(batch, "traceback", EmptyText, <<>>), add |-> <<>>,
          processed |-> FALSE, r |-> Untouched(errs), escapes |-> TRUE]
    ELSE IF api_response.raised \in {"APIError", "ModelNotSupportedError", "APIKeyError"}
    THEN NoRecords(Message(batch, "api_error", EmptyText, <<>>), errs)
    ELSE IF api_response.raised # "none"
    THEN NoRecords(Message(batch, "exception", EmptyText, <<>>), errs)
    ELSE IF api_response.v.empty
    THEN NoRecords(Message(batch, "empty", EmptyText, <<>>), errs)
    ELSE HandleProcessed(batch, api_response.v, process_json(api_response.v, errs, sch))

\* app.py:224-254, the body of the dispatch loop for one batch: the message
\* displayed, the records added to all_results, what process_json left, and
\* whether an exception leaves the loop body.
handle_batch(batch, mt, key, http, errs, sch) ==
    \* the model id is the entry the sidebar's selectbox starts on
    HandleResponse(batch,
                   call_api(mt, key,
                            IF mt = "deepseek" THEN "deepseek-chat" ELSE "qwen-turbo", http),
                   errs, sch)

\* app.py:189-192: the button pressed with no input text.
RejectNoText ==
    /\ pc = "idle"
    /\ shown' = <<Message(0, "no_text", EmptyText, <<>>)>>
    /\ UNCHANGED <<pc, planvars, procvars, api_key, idx, all_results, processed_data, api_calls,
                   used, sidevars>>

\* The button pressed with no API key and no test of it at app.py:193: the run
\* goes on to plan one unit.
RejectNoKey_Proceeds ==
    /\ pc = "idle"
    /\ used + 1 <= MaxUnits
    /\ used' = used + 1
    /\ pc' = "plan"
    /\ api_key' = ""
    /\ model_type' = "deepseek"
    /\ schema' = "single_choice"
    /\ errors' = <<>>
    /\ consumed' = 0
    /\ questions' = MkUnits(<<1>>)
    /\ batch_token_limit' = 1
    /\ qi' = 1
    /\ batches' = <<>>
    /\ current_batch' = <<>>
    /\ current_tokens' = 0
    /\ shown' = <<>>
    /\ api_calls' = <<>>
    /\ UNCHANGED <<json_str, ret, exc, errors_before, idx, all_results, processed_data, sidevars>>

\* app.py:193-195: the button pressed with no API key.
RejectNoKey ==
    /\ pc = "idle"
    /\ api_key' = ""
    /\ shown' = <<Message(0, "no_key", EmptyText, <<>>)>>
    /\ UNCHANGED <<pc, planvars, procvars, idx, all_results, processed_data, api_calls, used,
                   sidevars>>

\* app.py:196-199: the schema document of the chosen question type is empty.
RejectNoSchema ==
    /\ pc = "idle"
    /\ api_key' = "sk"
    /\ shown' = <<Message(0, "no_schema", EmptyText, <<>>)>>
    /\ UNCHANGED <<pc, planvars, procvars, idx, all_results, processed_data, api_calls, used,
                   sidevars>>

\* app.py:196-211: the button pressed with text and a key; the schema is
\* loaded, a processor is made for it and planning begins.
StartRun(mt, qt, qs, prompt_tokens, schema_tokens) ==
    /\ pc = "idle"
    /\ used + Len(qs) <= MaxUnits
    /\ used' = used + Len(qs)
    /\ pc' = "plan"
    /\ api_key' = "sk"
    /\ model_type' = mt
    /\ schema' = qt
    /\ errors' = <<>>
    /\ consumed' = 0
    /\ questions' = qs
    /\ batch_token_limit' = BatchTokenLimit(get_model_max_tokens(mt), prompt_tokens, schema_tokens)
    /\ qi' = 1
    /\ batches' = <<>>
    /\ current_batch' = <<>>
    /\ current_tokens' = 0
    /\ shown' = <<>>
    /\ api_calls' = <<>>
    /\ UNCHANGED <<json_str, ret, exc, errors_before, idx, all_results, processed_data, sidevars>>

Start ==
    \E mt \in ModelTypes, qt \in SchemaTypes \cup {MalformedType},
       qs \in { MkUnits([i \in 1..n |-> 1]) : n \in 0..MaxUnits }, p \in 1..MaxPrompt :
        \E s \in SchemaTokenChoices(mt, p) : StartRun(mt, qt, qs, p, s)

\* The turn with the new records put before the accumulated ones.
Handled_Prepends(http, o) ==
    /\ api_calls' = Append(api_calls, idx)
    /\ shown' = Append(shown, o.msg)
    /\ all_results' = o.add \o all_results
    /\ errors' = o.r.errors
    /\ IF o.processed
       THEN /\ json_str' = http.content
            /\ ret' = o.r.ret
            /\ exc' = o.r.exc
            /\ errors_before' = errors
            /\ consumed' = consumed + Size(http.content)
       ELSE UNCHANGED <<json_str, ret, exc, errors_before, consumed>>
    /\ IF o.escapes
       THEN pc' = "crashed" /\ idx' = idx
       ELSE pc' = pc /\ idx' = idx + 1

\* The turn that stays on a batch which gave no record, so that the batch is
\* sent again.
Handled_RetryOnFailure(http, o) ==
    /\ api_calls' = Append(api_calls, idx)
    /\ shown' = Append(shown, o.msg)
    /\ all_results' = all_results \o o.add
    /\ errors' = o.r.errors
    /\ IF o.processed
       THEN /\ json_str' = http.content
            /\ ret' = o.r.ret
            /\ exc' = o.r.exc
            /\ errors_before' = errors
            /\ consumed' = consumed + Size(http.content)
       ELSE UNCHANGED <<json_str, ret, exc, errors_before, consumed>>
    /\ IF o.escapes
       THEN pc' = "crashed" /\ idx' = idx
       ELSE pc' = pc /\ idx' = IF o.add = <<>> THEN idx ELSE idx + 1

\* app.py:223-254: one turn of the dispatch loop.
Handled(http, o) ==
    /\ api_calls' = Append(api_calls, idx)
    /\ shown' = Append(shown, o.msg)
    /\ all_results' = all_results \o o.add
    /\ errors' = o.r.errors
    /\ IF o.processed
       THEN /\ json_str' = http.content
            /\ ret' = o.r.ret
            /\ exc' = o.r.exc
            /\ errors_before' = errors
            /\ consumed' = consumed + Size(http.content)
       ELSE UNCHANGED <<json_str, ret, exc, errors_before, consumed>>
    /\ IF o.escapes
       THEN pc' = "crashed" /\ idx' = idx
       ELSE pc' = pc /\ idx' = idx + 1

HandleBatch(http) ==
    /\ pc = "dispatch"
    /\ idx < Len(batches)
    /\ Handled(http, handle_batch(idx, model_type, api_key, http, errors, schema))
    /\ UNCHANGED <<planvars, schema, api_key, processed_data, used, sidevars>>

Dispatch == \E http \in HttpOutcomes : HandleBatch(http)

\* app.py:255-257: after the last batch.
FinishRun ==
    /\ pc = "dispatch"
    /\ idx = Len(batches)
    /\ pc' = "done"
    /\ IF all_results # <<>>
       THEN /\ processed_data' = JList(all_results)
            /\ shown' = Append(shown, Message(idx, "all_done", EmptyText, <<>>))
       ELSE UNCHANGED <<processed_data, shown>>
    /\ UNCHANGED <<planvars, procvars, api_key, idx, all_results, api_calls, used, sidevars>>

\* ------------------------------------------------------------------------
\* src/schema_manager.py and src/config_manager.py: the stored state
\* ------------------------------------------------------------------------
\* The two SchemaManager instances of the program: the App's and the
\* QuestionTypeManager's.
Instances == {1, 2}

CustomIds == {"t1", "t2"}

\* Schema documents: the built-in ones (named by their type), a custom
\* Draft-7 document, a dict that is no Draft-7 schema, the empty dict and a
\* value that is no dict.
CustomDoc == "custom_doc"
MalformedDoc == "malformed_doc"
EmptyDoc == "empty_doc"
NotADict == "not_a_dict"

\* Draft7Validator.check_schema(schema) does not raise
CheckSchemaPasses(doc) == doc \in SchemaTypes \cup {CustomDoc, EmptyDoc}

GeneratedPrompt == "generated_prompt"

\* an entry of SchemaManager.schemas, and the mark of a type that has none
Entry(doc, prompt) == [schema |-> doc, prompt_template |-> prompt]
NoEntry == [schema |-> "none", prompt_template |-> "none"]

\* _get_default_schemas
DefaultSchemas ==
    [id \in SchemaTypes \cup CustomIds |->
        IF id \in SchemaTypes THEN Entry(id, "builtin_prompt") ELSE NoEntry]

StoredIds(m) == { id \in DOMAIN m : m[id] # NoEntry }

\* schemas.json as _save_schemas writes it
FileOf(m) == [exists |-> TRUE, content |-> m]

NoCall == [op |-> "none", args |-> <<>>, raised |-> "none", result |-> <<>>]

SideIdle ==
    /\ call = NoCall
    /\ schemas = [i \in Instances |-> DefaultSchemas]
    /\ schemas_file = [exists |-> FALSE, content |-> DefaultSchemas]
    /\ live = [i \in Instances |-> SchemaTypes]
    /\ added = {}
    /\ ops = 0
    /\ config = [mt \in ModelTypes |-> ""]

\* ------------------------------------------------------------------------
\* The processor alone: process_json called on every reply of the bounds
\* ------------------------------------------------------------------------
ProcIdle ==
    /\ schema = "single_choice"
    /\ errors = <<>>
    /\ json_str = Garbage
    /\ ret = JNull
    /\ exc = "none"
    /\ errors_before = <<>>
    /\ consumed = 0

RunIdle ==
    /\ api_key = ""
    /\ idx = 0
    /\ all_results = <<>>
    /\ processed_data = JNull
    /\ shown = <<>>
    /\ api_calls = <<>>
    /\ used = 0

PlanIdle ==
    /\ pc = "idle"
    /\ model_type = "deepseek"
    /\ batch_token_limit = 0
    /\ questions = <<>>
    /\ qi = 1
    /\ batches = <<>>
    /\ current_batch = <<>>
    /\ current_tokens = 0

\* JSONProcessor.__init__
InitProc ==
    /\ PlanIdle
    /\ RunIdle
    /\ SideIdle
    /\ schema \in SchemaTypes
    /\ errors = <<>>
    /\ json_str = Garbage
    /\ ret = JNull
    /\ exc = "none"
    /\ errors_before = <<>>
    /\ consumed = 0

CallProcessJson(text) ==
    /\ consumed + Size(text) <= MaxItems
    /\ ret' = process_json(text, errors, schema).ret
    /\ errors' = process_json(text, errors, schema).errors
    /\ exc' = process_json(text, errors, schema).exc
    /\ json_str' = text
    /\ errors_before' = errors
    /\ consumed' = consumed + Size(text)
    /\ UNCHANGED <<pc, planvars, schema, runvars, sidevars>>

ProcessGarbage == CallProcessJson(Garbage)

ProcessList ==
    \E n \in 0..(MaxItems - consumed) : \E ix \in [1..n -> 1..Len(Elements)] :
        CallProcessJson(ListReply(ix))

ProcessSingle == \E i \in 1..Len(Elements) : CallProcessJson(JsonText(Elements[i]))

\* a reply that wraps its records in an object: {"items": [...]}
ProcessWrapped ==
    \E i \in 1..Len(Elements) :
        CallProcessJson(JsonText(JDict(<< <<"items", JList(<<Elements[i]>>)>> >>)))

NextProc == ProcessGarbage \/ ProcessList \/ ProcessSingle \/ ProcessWrapped

SpecProc == InitProc /\ [][NextProc]_vars

\* The records a return value of process_json holds.
Records(r) == IF r.t = "null" THEN <<>> ELSE IF r.t = "list" THEN r.v ELSE <<r>>

Called == consumed > 0
ListReplied == Called /\ json_str.wellformed /\ json_str.value.t = "list"

\* What the normalisation steps make of an element, read off the component
\* design: an object whose options and answer have a recognised shape.
NormalizesCleanly(x) ==
    /\ x.t = "dict"
    /\ HasKey(x, "options") => Get(x, "options").t \in {"list", "dict"}
    /\ HasKey(x, "answer") =>
          \/ Get(x, "answer").t \in {"str", "bool"}
          \/ /\ Get(x, "answer").t = "list"
             /\ \A i \in 1..Len(Get(x, "answer").v) : Get(x, "answer").v[i].t = "str"

Normalized(x) ==
    LET p1 == IF HasKey(x, "options")
              THEN Put(x, "options", format_options(Get(x, "options")).v) ELSE x
    IN IF HasKey(p1, "answer")
       THEN Put(p1, "answer", format_answer(Get(p1, "answer")).v) ELSE p1

Retained(sch, x) == NormalizesCleanly(x) /\ SchemaAccepts(sch, Normalized(x))

RECURSIVE RetainedOf(_, _)
RetainedOf(sch, l) ==
    IF l = <<>> THEN <<>>
    ELSE (IF Retained(sch, Head(l)) THEN <<Normalized(Head(l))>> ELSE <<>>)
         \o RetainedOf(sch, Tail(l))

Required(sch) ==
    IF sch = "true_false" THEN {"question", "answer"} ELSE {"question", "options", "answer"}

LacksRequired(sch, x) == x.t = "dict" /\ ~(Required(sch) \subseteq Keys(x))

\* the last reply is a list in which element k lacks a required field and
\* every other element is a valid record
OneLacksRequired(k) ==
    /\ ListReplied
    /\ k \in 1..Len(json_str.value.v)
    /\ LacksRequired(schema, json_str.value.v[k])
    /\ \A j \in 1..Len(json_str.value.v) : j # k => Retained(schema, json_str.value.v[j])

\* C7: after process_json on a list in which one record lacks a required
\* field, the other records are returned and the error list holds a schema
\* violation for the dropped record, whatever its position.
C7_DroppedRecordReported ==
    \A k \in 1..MaxItems :
        OneLacksRequired(k) =>
            /\ exc = "none"
            /\ Records(ret) = RetainedOf(schema, json_str.value.v)
            /\ \E i \in 1..Len(errors) :
                  errors[i] = SchemaViolation(Normalized(json_str.value.v[k]))

\* C8: the error list of the processor only grows: every step keeps the
\* errors recorded before it.
C8_ErrorsOnlyGrow == [][IsPrefix(errors, errors')]_vars

\* C9: process_json on text that is not valid JSON returns no record, lets no
\* exception escape and adds exactly one error, a parse error.
C9_ParseFailure ==
    (Called /\ ~json_str.wellformed)
        => /\ Records(ret) = <<>>
           /\ exc = "none"
           /\ errors = Append(errors_before, ParseError)

C9_Witness ==
    /\ Called
    /\ ~json_str.wellformed
    /\ errors_before # <<>>

\* C10: for a reply that parses to a list, process_json returns exactly the
\* elements that normalise without fault and pass schema validation, in
\* reply order.
C10_ExactlyTheValidElements ==
    ListReplied => Records(ret) = RetainedOf(schema, json_str.value.v)

IsItemsWrapper(x) ==
    x.t = "dict" /\ HasKey(x, "items") /\ Get(x, "items").t = "list"

\* the record sequence a parsed reply stands for
AsRecords(x) ==
    IF IsItemsWrapper(x) THEN Get(x, "items").v
    ELSE IF x.t = "dict" THEN <<x>>
    ELSE IF x.t = "list" THEN x.v
    ELSE <<>>

\* C21: process_json treats a single object as a one-record sequence, an
\* object with an "items" list as that list and a top-level list as it is:
\* it returns what processing the record sequence returns; for any other
\* parsed value it returns no record and adds one error.
C21_ReplyShapes ==
    (Called /\ json_str.wellformed)
        => /\ Records(ret)
                = Records(ListResult(ProcessItems(AsRecords(json_str.value), <<>>, <<>>, schema)).ret)
           /\ json_str.value.t \notin {"dict", "list"}
                => (ret = JNull /\ Len(errors) = Len(errors_before) + 1)

\* ------------------------------------------------------------------------
\* A conversion run: the button, planning, the dispatch loop, the result
\* ------------------------------------------------------------------------
Init == PlanIdle /\ ProcIdle /\ RunIdle /\ SideIdle

Next ==
    \/ RejectNoText
    \/ RejectNoKey
    \/ RejectNoSchema
    \/ Start
    \/ PlanUnit
    \/ PlanClose
    \/ Dispatch
    \/ FinishRun

Spec == Init /\ [][Next]_vars

\* ------------------------------------------------------------------------
\* Planning alone: every unit sequence and budget of the bounds
\* ------------------------------------------------------------------------
InitPlan ==
    /\ pc = "plan"
    /\ model_type \in ModelTypes
    /\ \E p \in 1..MaxPrompt : \E s \in SchemaTokenChoices(model_type, p) :
          batch_token_limit = BatchTokenLimit(get_model_max_tokens(model_type), p, s)
    /\ questions \in { MkUnits(c) : c \in UNION { [1..n -> 1..MaxCost] : n \in 0..MaxUnits } }
    /\ qi = 1
    /\ batches = <<>>
    /\ current_batch = <<>>
    /\ current_tokens = 0
    /\ ProcIdle
    /\ RunIdle
    /\ SideIdle

NextPlan == PlanUnit \/ PlanClose

SpecPlan == InitPlan /\ [][NextPlan]_vars

Planned == pc = "dispatch"

\* C1: the planned batches, concatenated in batch order, equal the input unit
\* sequence, and no planned batch is empty, whatever the budget.
C1_Partition ==
    Planned => /\ Flatten(batches) = questions
               /\ \A i \in 1..Len(batches) : batches[i] # <<>>

C1_Witness ==
    /\ Planned
    /\ Len(batches) >= 2
    /\ batch_token_limit <= 0
    /\ Len(questions) = MaxUnits

AllUnitsFit == \A k \in 1..Len(questions) : count_tokens(questions[k]) <= batch_token_limit

\* C2: with a positive budget and every unit within the budget, the token
\* costs of the units of every planned batch sum to at most the budget.
C2_BatchWithinBudget ==
    (Planned /\ batch_token_limit > 0 /\ AllUnitsFit)
        => \A i \in 1..Len(batches) : SumTokens(batches[i]) <= batch_token_limit

C2_Witness ==
    /\ Planned
    /\ batch_token_limit > 0
    /\ AllUnitsFit
    /\ Len(batches) >= 2
    /\ \E i \in 1..Len(batches) : Len(batches[i]) >= 2

Oversized(q) == count_tokens(q) > batch_token_limit

\* C3: a unit whose own cost exceeds the budget is the only unit of exactly
\* one planned batch, wherever it stands in the input.
C3_OversizedAlone ==
    Planned => \A k \in 1..Len(questions) :
                  Oversized(questions[k]) =>
                      /\ Cardinality({ i \in 1..Len(batches) : batches[i] = <<questions[k]>> }) = 1
                      /\ \A i \in 1..Len(batches) :
                            (\E j \in 1..Len(batches[i]) : batches[i][j] = questions[k])
                                => Len(batches[i]) = 1

C3_Witness ==
    /\ Planned
    /\ batch_token_limit > 0
    /\ Len(questions) >= 3
    /\ ~Oversized(questions[1])
    /\ Oversized(questions[2])
    /\ ~Oversized(questions[3])

\* C4: with a computed budget of zero or less the run aborts: no batch is
\* produced and none is dispatched.
C4_NonPositiveBudgetAborts ==
    batch_token_limit <= 0 => (batches = <<>> /\ api_calls = <<>>)

FailureKinds == {"api_error", "exception", "empty", "json_decode", "json_exception",
                 "json_failed"}

\* C5: a failure while handling a batch never stops the run: each turn of the
\* dispatch loop calls the service for its batch, keeps the records of the
\* earlier batches and moves to the next batch, and the run ends only after
\* the last batch.
C5_FailureDoesNotStopRun ==
    [][ /\ (pc = "dispatch" /\ idx < Len(batches))
            => /\ pc' = "dispatch"
               /\ idx' = idx + 1
               /\ batches' = batches
               /\ api_calls' = Append(api_calls, idx)
               /\ IsPrefix(all_results, all_results')
        /\ (pc = "dispatch" /\ pc' # "dispatch")
            => /\ idx = Len(batches)
               /\ pc' = "done"
               /\ all_results' = all_results ]_vars

C5_Witness ==
    /\ pc = "done"
    /\ Len(batches) >= 3
    /\ shown[1].kind = "success"
    /\ shown[2].kind \in FailureKinds
    /\ shown[3].kind = "success"
    /\ Len(all_results) >= 2
    /\ processed_data = JList(all_results)

IsListText(text) == text.wellformed /\ text.value.t = "list"

\* C6: every record a batch drops yields exactly one error in what the run
\* displays for that batch, also when other records of the batch are valid;
\* for the reply [valid record, record with answer "F"] the result holds the
\* valid record and one schema violation is displayed.
C6_EveryDropReported ==
    /\ \A i \in 1..Len(shown) :
          IsListText(shown[i].response)
              => Len(shown[i].reported)
                    = Len(shown[i].response.value.v)
                        - Len(RetainedOf(schema, shown[i].response.value.v))
    /\ (pc = "done" /\ schema = "single_choice" /\ Len(batches) = 1
            /\ shown[1].response = ListReply(<<1, 3>>))
          => /\ all_results = <<RecGood>>
             /\ \E e \in {SchemaViolation(RecF)} : shown[1].reported = <<e>>

\* ------------------------------------------------------------------------
\* The page over several button presses: the script ends and the page waits
\* for the next press, st.session_state kept
\* ------------------------------------------------------------------------
\* The script run that handled the press has ended: its locals and the
\* messages it displayed are gone, st.session_state.processed_data and the
\* sidebar's key stay.
EndScript ==
    /\ pc = "done"
    /\ pc' = "idle"
    /\ model_type' = "deepseek"
    /\ batch_token_limit' = 0
    /\ questions' = <<>>
    /\ qi' = 1
    /\ batches' = <<>>
    /\ current_batch' = <<>>
    /\ current_tokens' = 0
    /\ schema' = "single_choice"
    /\ errors' = <<>>
    /\ json_str' = Garbage
    /\ ret' = JNull
    /\ exc' = "none"
    /\ errors_before' = <<>>
    /\ consumed' = 0
    /\ idx' = 0
    /\ all_results' = <<>>
    /\ shown' = <<>>
    /\ api_calls' = <<>>
    /\ UNCHANGED <<api_key, processed_data, used, sidevars>>

NextSession == Next \/ EndScript

SpecSession == Init /\ [][NextSession]_vars

\* ------------------------------------------------------------------------
\* A run that the Streamlit runtime interrupts (the Stop button, or a widget
\* changed while the script runs): the script is abandoned at the st.spinner
\* call of a turn of the dispatch loop, before line 256 is reached.
\* ------------------------------------------------------------------------
Interrupt ==
    /\ pc = "dispatch"
    /\ idx < Len(batches)
    /\ pc' = "interrupted"
    /\ UNCHANGED <<planvars, procvars, runvars, sidevars>>

NextCancel == Next \/ Interrupt

SpecCancel == Init /\ [][NextCancel]_vars

\* ------------------------------------------------------------------------
\* The normalisation steps alone: _format_options, _format_answer and
\* _process_single_item applied to the values of the bounds
\* ------------------------------------------------------------------------
\* options lists of every length up to MaxOptions, the entries alternating
\* between two texts in runs of p + 1
OptionLists ==
    { JList([i \in 1..n |-> JStr(IF (i \div (p + 1)) % 2 = 0 THEN "x" ELSE "y")]) :
        n \in 0..MaxOptions, p \in 0..3 }

OptionKeys == {"a", "A", "b", "c"}

\* options mappings: up to MaxKeys distinct keys, in every order, each with
\* its own value
DistinctKeySeqs ==
    { f \in UNION { [1..m -> OptionKeys] : m \in 0..Min(MaxKeys, Cardinality(OptionKeys)) } :
        \A i, j \in 1..Len(f) : i # j => f[i] # f[j] }

OptionDicts ==
    { JDict([i \in 1..Len(ks) |->
                <<ks[i], <<JStr("x"), JStr("y"), JStr("z"), JStr("w"), JStr("v")>>[i]>>]) :
        ks \in DistinctKeySeqs }

Answers ==
    { JStr("a"), JStr("A"), JStr("b"),
      JList(<<JStr("a"), JStr("c")>>), JList(<<>>), JList(<<JStr("b")>>),
      JList(<<JStr("a"), JNum(1)>>), JList(<<JBool(TRUE)>>),
      JBool(TRUE), JBool(FALSE),
      JNum(1), JNum(0), JNull, JDict(<<>>), OptionsAB }

RecWithAnswer(a) == JDict(<< Question, <<"options", OptionsAB>>, <<"answer", a>> >>)

InitNorm ==
    /\ PlanIdle /\ RunIdle /\ SideIdle
    /\ schema \in SchemaTypes
    /\ errors = <<>>
    /\ json_str = Garbage
    /\ ret = JNull
    /\ exc = "none"
    /\ errors_before = <<>>
    /\ consumed = 0

Formatted(r) ==
    /\ ret' = r.v
    /\ exc' = IF r.raised THEN "raised" ELSE "none"

\* a call of _format_options
FormatOptions ==
    \E o \in OptionLists \cup OptionDicts \cup {JNum(1), JNull, JStr("x"), JBool(TRUE)} :
        /\ pc = "idle"
        /\ pc' = "format_options"
        /\ json_str' = JsonText(o)
        /\ Formatted(format_options(o))
        /\ UNCHANGED <<planvars, schema, errors, errors_before, consumed, runvars, sidevars>>

\* a call of _format_answer
FormatAnswer ==
    \E a \in Answers :
        /\ pc = "idle"
        /\ pc' = "format_answer"
        /\ json_str' = JsonText(a)
        /\ Formatted(format_answer(a))
        /\ UNCHANGED <<planvars, schema, errors, errors_before, consumed, runvars, sidevars>>

\* a call of _process_single_item on a record
ProcessItem ==
    \E a \in Answers :
        /\ pc \in {"idle", "process_item"}
        /\ consumed < MaxItems
        /\ pc' = "process_item"
        /\ json_str' = JsonText(RecWithAnswer(a))
        /\ ret' = process_single_item(RecWithAnswer(a), errors, schema).ret
        /\ errors' = process_single_item(RecWithAnswer(a), errors, schema).errors
        /\ exc' = "none"
        /\ errors_before' = errors
        /\ consumed' = consumed + 1
        /\ UNCHANGED <<planvars, schema, runvars, sidevars>>

NextNorm == FormatOptions \/ FormatAnswer \/ ProcessItem

SpecNorm == InitNorm /\ [][NextNorm]_vars

\* ------------------------------------------------------------------------
\* Properties of a run
\* ------------------------------------------------------------------------
RECURSIVE IsSubSeq(_, _)
IsSubSeq(a, b) ==
    IF a = <<>> THEN TRUE
    ELSE IF b = <<>> THEN FALSE
    ELSE IF Head(a) = Head(b) THEN IsSubSeq(Tail(a), Tail(b))
    ELSE IsSubSeq(a, Tail(b))

\* the elements of a reply, each as the normalisation steps leave it
ReplyElements(text) ==
    IF ~text.wellformed THEN <<>>
    ELSE IF text.value.t = "list" THEN text.value.v
    ELSE <<text.value>>

NormalizedEach(l) == [i \in 1..Len(l) |-> IF l[i].t = "dict" THEN Normalized(l[i]) ELSE l[i]]

BatchTurn == pc = "dispatch" /\ idx < Len(batches)

\* C11: every turn of the dispatch loop appends the records returned for its
\* batch to the end of the accumulated result, so that the result is the
\* concatenation of the batches' records in batch order; the records of a
\* batch stand in the order of the reply, and a batch that fails adds nothing.
C11_ResultsInBatchOrder ==
    [][ BatchTurn =>
          /\ consumed' # consumed
                => /\ all_results' = all_results \o Records(ret')
                   /\ IsSubSeq(Records(ret'), NormalizedEach(ReplyElements(json_str')))
          /\ consumed' = consumed => all_results' = all_results
          /\ shown'[Len(shown')].kind \in FailureKinds => all_results' = all_results ]_vars

C11_Witness ==
    /\ pc = "done"
    /\ Len(batches) = 3
    /\ shown[1].response = ListReply(<<2, 1>>)
    /\ shown[2].kind \in FailureKinds
    /\ shown[3].response = ListReply(<<1, 3>>)
    /\ all_results = <<Normalized(RecLower), RecGood, RecGood>>

\* C12: a run whose schema document is not a well-formed Draft-7 schema
\* aborts before planning: it plans no batch and calls the service for none.
C12_MalformedSchemaAborts ==
    ~WellFormed(schema) => (pc = "idle" /\ batches = <<>> /\ api_calls = <<>>)

\* C13: a press of the button with an empty credential leaves the page idle
\* with no batch planned, no service call made and the stored result as it
\* was; and a run that has begun planning ends only after its last batch.
C13_EmptyCredentialAborts ==
    [][ /\ api_key' = ""
            => /\ pc' = "idle"
               /\ batches' = batches
               /\ api_calls' = api_calls
               /\ processed_data' = processed_data
        /\ (pc \in {"plan", "dispatch"} /\ pc' \notin {"plan", "dispatch"})
            => /\ pc' = "done"
               /\ idx = Len(batches) ]_vars

C13_Witness ==
    /\ api_key = ""
    /\ pc = "idle"
    /\ shown = <<Message(0, "no_key", EmptyText, <<>>)>>
    /\ processed_data # JNull

\* the batch indices 0 .. n-1 in order
FirstIndices(n) == [i \in 1..n |-> i - 1]

\* C14: the service is called once for each planned batch, in batch order,
\* one message is displayed per batch handled, and a timeout or transport
\* fault is a failure of its batch after which the loop moves on.
C14_OneCallPerBatch ==
    /\ pc \in {"idle", "plan"} => api_calls = <<>>
    /\ pc \in {"dispatch", "done"}
          => /\ idx <= Len(batches)
             /\ api_calls = FirstIndices(idx)
             /\ Len(shown) >= idx
    /\ pc = "done" => api_calls = FirstIndices(Len(batches))
    /\ BatchTurn
          => \A http \in {Timeout, TransportFault} :
                /\ handle_batch(idx, model_type, api_key, http, errors, schema).msg.kind
                      = "api_error"
                /\ handle_batch(idx, model_type, api_key, http, errors, schema).add = <<>>
                /\ ~handle_batch(idx, model_type, api_key, http, errors, schema).escapes

C14_Witness ==
    /\ pc = "done"
    /\ Len(batches) = 3
    /\ api_calls = <<0, 1, 2>>
    /\ shown[2].kind = "api_error"
    /\ shown[3].kind = "success"

\* C15: when a run is interrupted, the records accumulated from the batches
\* handled so far are the stored result.
C15_InterruptKeepsResults ==
    (pc = "interrupted" /\ all_results # <<>>) => processed_data = JList(all_results)

\* C16: after a run in which no batch gave a record, the stored result holds
\* no record.
C16_ResultOfThisRunOnly ==
    (pc = "done" /\ all_results = <<>>) => processed_data = JNull

ContiguousFromA(o) ==
    /\ o.t = "dict"
    /\ Len(o.v) <= 26
    /\ Keys(o) = { Letters[i] : i \in 1..Len(o.v) }

AnswerLetters(a) ==
    IF a.t = "str" THEN {a.v}
    ELSE IF a.t = "list" THEN { a.v[i].v : i \in 1..Len(a.v) }
    ELSE {}

OptionKeysOf(r) == IF HasKey(r, "options") THEN Keys(Get(r, "options")) ELSE {}

NormalizedRecord(r) ==
    /\ r.t = "dict"
    /\ HasKey(r, "options") => ContiguousFromA(Get(r, "options"))
    /\ HasKey(r, "answer") => AnswerLetters(Get(r, "answer")) \subseteq OptionKeysOf(r)

\* C17: every record of the accumulated result has option keys A, B, ... with
\* no gap, and every letter of its answer is one of its option keys.
C17_ResultsAreNormalizedRecords ==
    \A i \in 1..Len(all_results) : NormalizedRecord(all_results[i])

\* ------------------------------------------------------------------------
\* Properties of the normalisation steps
\* ------------------------------------------------------------------------
\* C18: _format_options on a list of n entries gives the mapping of the first
\* min(n, 26) letters from A, the i-th letter to the i-th entry, and
\* ["x", "y"] gives {A: "x", B: "y"}.
C18_OptionListToLetters ==
    (pc = "format_options" /\ json_str.value.t = "list")
        => /\ exc = "none"
           /\ ret.t = "dict"
           /\ Len(ret.v) = Min(Len(json_str.value.v), 26)
           /\ \A i \in 1..Len(ret.v) : ret.v[i] = <<Letters[i], json_str.value.v[i]>>
           /\ json_str.value = JList(<<JStr("x"), JStr("y")>>) => ret = OptionsAB

C18_Witness ==
    /\ pc = "format_options"
    /\ json_str.value.t = "list"
    /\ Len(json_str.value.v) > 26
    /\ Len(ret.v) = 26
    /\ ret.v[26][1] = "Z"

\* C19: _format_options on a mapping keeps every entry, each value under the
\* upper-cased form of its key.
C19_OptionMapKeepsEntries ==
    (pc = "format_options" /\ json_str.value.t = "dict")
        => /\ exc = "none"
           /\ ret.t = "dict"
           /\ Len(ret.v) = Len(json_str.value.v)
           /\ \A i \in 1..Len(json_str.value.v) :
                 /\ HasKey(ret, Upper(json_str.value.v[i][1]))
                 /\ Get(ret, Upper(json_str.value.v[i][1])) = json_str.value.v[i][2]

IsStrList(a) == a.t = "list" /\ \A i \in 1..Len(a.v) : a.v[i].t = "str"

RecognisedAnswer(a) == a.t \in {"str", "bool"} \/ IsStrList(a)

\* C20: _format_answer upper-cases a string, upper-cases each element of a
\* list of strings keeping order and length, and returns a boolean as it is;
\* for every other shape it raises, and _process_single_item then returns no
\* record and adds one item error to the error list.
C20_AnswerByShape ==
    /\ (pc = "format_answer" /\ json_str.value.t = "str")
          => (exc = "none" /\ ret = JStr(Upper(json_str.value.v)))
    /\ (pc = "format_answer" /\ IsStrList(json_str.value))
          => /\ exc = "none"
             /\ ret.t = "list"
             /\ Len(ret.v) = Len(json_str.value.v)
             /\ \A i \in 1..Len(ret.v) : ret.v[i] = JStr(Upper(json_str.value.v[i].v))
    /\ (pc = "format_answer" /\ json_str.value.t = "bool")
          => (exc = "none" /\ ret = json_str.value)
    /\ (pc = "format_answer" /\ ~RecognisedAnswer(json_str.value)) => exc # "none"
    /\ (pc = "process_item" /\ ~RecognisedAnswer(Get(json_str.value, "answer")))
          => /\ ret = JNull
             /\ errors = Append(errors_before, ItemError(json_str.value))

C20_Witness ==
    /\ pc = "process_item"
    /\ Get(json_str.value, "answer") = JList(<<JStr("a"), JNum(1)>>)
    /\ ret = JNull
    /\ Len(errors) = 2
    /\ errors[1].about = RecWithAnswer(JNum(1))

\* ------------------------------------------------------------------------
\* Single calls: call_api, split_questions and count_tokens applied to
\* inputs drawn from bounded sets; `call` records the call and its outcome.
\* ------------------------------------------------------------------------
\* call_api with a model type and a model id of the table or foreign to
\* it, with and without a key
CallApi ==
    \E mt \in ModelTypes \cup {"other"}, key \in {"", "sk"},
       mdl \in UNION { Models(t) : t \in ModelTypes } \cup {"gpt-4"},
       http \in HttpOutcomes :
        /\ call = NoCall
        /\ call' = [op |-> "call_api", args |-> <<mt, key, mdl, http>>,
                    raised |-> call_api(mt, key, mdl, http).raised,
                    result |-> <<call_api(mt, key, mdl, http).v>>]
        /\ UNCHANGED <<pc, planvars, procvars, runvars, repovars, config>>

\* Input text: a sequence of characters over a letter, a space and a newline
\* (the \r\n alternatives of the pattern need a \r and never match here).
IsSpace(c) == c \in {" ", "\n"}

\* str.strip(): from the first to the last character that is not whitespace
Strip(t) ==
    IF \A k \in 1..Len(t) : IsSpace(t[k]) THEN <<>>
    ELSE SubSeq(t,
                CHOOSE a \in 1..Len(t) :
                    ~IsSpace(t[a]) /\ \A k \in 1..(a - 1) : IsSpace(t[k]),
                CHOOSE b \in 1..Len(t) :
                    ~IsSpace(t[b]) /\ \A k \in (b + 1)..Len(t) : IsSpace(t[k]))

\* where the longest match of \n\s*\n that starts at i ends (0: no match)
BlankLineEnds(t, i) ==
    { j \in (i + 1)..Len(t) : t[j] = "\n" /\ \A k \in (i + 1)..(j - 1) : IsSpace(t[k]) }

BlankLineEnd(t, i) ==
    IF t[i] = "\n" /\ BlankLineEnds(t, i) # {}
    THEN CHOOSE j \in BlankLineEnds(t, i) : \A k \in BlankLineEnds(t, i) : k <= j
    ELSE 0

\* where the separator matched at i ends (0: none): the first alternative
\* that matches wins, \n\s*\n before \n; `single` switches the \n alternative
SeparatorEnd(t, i, single) ==
    IF BlankLineEnd(t, i) # 0 THEN BlankLineEnd(t, i)
    ELSE IF single /\ t[i] = "\n" THEN i
    ELSE 0

\* re.split: the pieces between successive separator matches
RECURSIVE re_split(_, _, _, _)
re_split(t, i, start, single) ==
    IF i > Len(t) THEN << SubSeq(t, start, Len(t)) >>
    ELSE IF SeparatorEnd(t, i, single) = 0 THEN re_split(t, i + 1, start, single)
    ELSE << SubSeq(t, start, i - 1) >>
            \o re_split(t, SeparatorEnd(t, i, single) + 1, SeparatorEnd(t, i, single) + 1, single)

\* [q.strip() for q in pieces if q.strip()]
StrippedNonEmpty(pieces) ==
    SelectSeq([k \in 1..Len(pieces) |-> Strip(pieces[k])], LAMBDA q : q # <<>>)

\* split_questions
split_questions(input_text) == StrippedNonEmpty(re_split(Strip(input_text), 1, 1, TRUE))

SplitQuestions ==
    \E t \in UNION { [1..n -> {"a", " ", "\n"}] : n \in 0..MaxText } :
        /\ call = NoCall
        /\ call' = [op |-> "split_questions", args |-> <<t>>, raised |-> "none",
                    result |-> split_questions(t)]
        /\ UNCHANGED <<pc, planvars, procvars, runvars, repovars, config>>

\* What tiktoken can do under count_tokens: get_encoding and
\* encoding_for_model load an encoding or raise, encode returns the tokens
\* or raises (text that holds a special token).
\* count_tokens with its tokenizer: the except clause covers get_encoding
\* only; what the fallback or encode raises leaves the function.
count_tokens_with(tk, q) ==
    IF ~tk.encoding /\ ~tk.fallback THEN [raised |-> "Exception", v |-> 0]
    ELSE IF ~tk.encode THEN [raised |-> "ValueError", v |-> 0]
    ELSE [raised |-> "none", v |-> count_tokens(q)]

CountTokens ==
    \E tk \in [encoding : BOOLEAN, fallback : BOOLEAN, encode : BOOLEAN], n \in 1..MaxCost :
        /\ call = NoCall
        /\ call' = [op |-> "count_tokens", args |-> <<tk, n>>,
                    raised |-> count_tokens_with(tk, [id |-> 1, tokens |-> n]).raised,
                    result |-> <<count_tokens_with(tk, [id |-> 1, tokens |-> n]).v>>]
        /\ UNCHANGED <<pc, planvars, procvars, runvars, repovars, config>>

NextCalls == CallApi \/ SplitQuestions \/ CountTokens
SpecCalls == Init /\ [][NextCalls]_vars

\* the error kind that names the cause of a failed call, causes taken in
\* the order call_api meets them ("any": a 200 answer, not a failure cause)
ExpectedKind(mt, key, mdl, http) ==
    IF mt \notin ModelTypes THEN "ModelNotSupportedError"
    ELSE IF key = "" THEN "APIKeyError"
    ELSE IF mdl \notin Models(mt) THEN "ModelNotSupportedError"
    ELSE IF http.kind \in {"timeout", "transport"} THEN "APIError"
    ELSE IF http.status = 401 THEN "APIKeyError"
    ELSE IF http.status # 200 THEN "APIError"
    ELSE "any"

\* C22: the error kind call_api raises names the cause: APIKeyError for an
\* empty key or a 401 answer, ModelNotSupportedError for an unknown model
\* type or model id, APIError for transport faults, timeouts and other
\* non-200 answers.
C22_ErrorKindNamesCause ==
    (call.op = "call_api"
        /\ ExpectedKind(call.args[1], call.args[2], call.args[3], call.args[4]) # "any")
        => call.raised = ExpectedKind(call.args[1], call.args[2], call.args[3], call.args[4])

HasBlankLine(t) == \E i \in 1..Len(t) : BlankLineEnd(t, i) # 0

\* the units the text stands for: its blank-line-separated blocks when it
\* has a blank line, its lines otherwise
UnitsOf(t) ==
    StrippedNonEmpty(re_split(Strip(t), 1, 1, ~HasBlankLine(Strip(t))))

\* C25: when the text has blank-line separators split_questions returns the
\* blank-line-separated blocks, trimmed, non-empty and in order, a single
\* newline inside a block not splitting it; single newlines delimit units
\* only when the text has no blank line.
C25_BlankLinesFirst ==
    call.op = "split_questions" => call.result = UnitsOf(call.args[1])

\* C26: count_tokens never raises: with the requested encoding unavailable
\* it falls back, and when the fallback or the tokenization faults it
\* returns an estimate not below the token count.
C26_CountTokensNeverRaises ==
    call.op = "count_tokens"
        => (call.raised = "none" /\ call.result[1] >= call.args[2])

\* ------------------------------------------------------------------------
\* src/schema_manager.py: the schema repository, one map per SchemaManager
\* instance and the schemas file they share
\* ------------------------------------------------------------------------
\* ids and documents the calls are made with
RepoIds == {"single_choice"} \cup CustomIds
NoPrompt == ""
CustomPrompt == "custom_prompt"

\* _load_schemas
load_schemas(file) == IF file.exists THEN file.content ELSE DefaultSchemas

Refused(m) == [raised |-> "ValueError", schemas |-> m, saved |-> FALSE]
Stored(m) == [raised |-> "none", schemas |-> m, saved |-> TRUE]

\* add_custom_schema with the entry stored before check_schema is called
add_custom_schema_StoreFirst(m, name, doc, prompt) ==
    IF name = "" \/ doc = EmptyDoc THEN Refused(m)
    ELSE IF doc = NotADict THEN Refused(m)
    ELSE IF ~CheckSchemaPasses(doc)
         THEN Refused([m EXCEPT ![name] = Entry(doc, prompt)])
    ELSE Stored([m EXCEPT ![name] =
                    Entry(doc, IF prompt = NoPrompt THEN GeneratedPrompt ELSE prompt)])

\* add_custom_schema: the three checks, then the entry is stored and saved
add_custom_schema(m, name, doc, prompt) ==
    IF name = "" \/ doc = EmptyDoc THEN Refused(m)
    ELSE IF doc = NotADict THEN Refused(m)
    ELSE IF ~CheckSchemaPasses(doc) THEN Refused(m)
    ELSE Stored([m EXCEPT ![name] =
                    Entry(doc, IF prompt = NoPrompt THEN GeneratedPrompt ELSE prompt)])

\* update_schema: the document is stored without check_schema
update_schema(m, id, doc) ==
    IF m[id] = NoEntry THEN Refused(m)
    ELSE IF doc = NotADict THEN Refused(m)
    ELSE Stored([m EXCEPT ![id].schema = doc])

\* update_prompt
update_prompt(m, id, prompt) ==
    IF m[id] = NoEntry THEN Refused(m)
    ELSE Stored([m EXCEPT ![id].prompt_template = prompt])

\* delete_schema without its del statement
delete_schema_KeepsEntry(m, id) ==
    IF m[id] = NoEntry THEN Refused(m)
    ELSE Stored(m)

\* delete_schema
delete_schema(m, id) ==
    IF m[id] = NoEntry THEN Refused(m)
    ELSE Stored([m EXCEPT ![id] = NoEntry])

\* get_schema and get_prompt
get_schema(m, id) ==
    IF m[id] = NoEntry THEN [raised |-> "ValueError", v |-> "none"]
    ELSE [raised |-> "none", v |-> m[id].schema]

get_prompt(m, id) ==
    IF m[id] = NoEntry THEN [raised |-> "ValueError", v |-> "none"]
    ELSE [raised |-> "none", v |-> m[id].prompt_template]

\* What a mutating call of instance i leaves: its map, the file written by
\* _save_schemas when the call got that far, and the call's record.
Mutated(i, op, args, r) ==
    /\ ops < MaxOps
    /\ schemas' = [schemas EXCEPT ![i] = r.schemas]
    /\ schemas_file' = IF r.saved THEN FileOf(r.schemas) ELSE schemas_file
    /\ call' = [op |-> op, args |-> <<i>> \o args, raised |-> r.raised, result |-> <<>>]
    /\ ops' = ops + 1
    /\ UNCHANGED <<pc, planvars, procvars, runvars, config>>

\* live[i]: the ids instance i loaded or added and has not deleted since;
\* added: the ids some instance added and none has deleted since.
AddCustomSchema ==
    \E i \in Instances, name \in CustomIds \cup {""},
       doc \in {CustomDoc, MalformedDoc, EmptyDoc, NotADict},
       prompt \in {NoPrompt, CustomPrompt} :
        /\ Mutated(i, "add_custom_schema", <<name, doc, prompt>>,
                   add_custom_schema(schemas[i], name, doc, prompt))
        /\ live' = IF add_custom_schema(schemas[i], name, doc, prompt).raised = "none"
                   THEN [live EXCEPT ![i] = @ \cup {name}] ELSE live
        /\ added' = IF add_custom_schema(schemas[i], name, doc, prompt).raised = "none"
                    THEN added \cup {name} ELSE added

UpdateSchema ==
    \E i \in Instances, id \in RepoIds, doc \in {CustomDoc, MalformedDoc, NotADict} :
        /\ Mutated(i, "update_schema", <<id, doc>>, update_schema(schemas[i], id, doc))
        /\ UNCHANGED <<live, added>>

UpdatePrompt ==
    \E i \in Instances, id \in RepoIds :
        /\ Mutated(i, "update_prompt", <<id, CustomPrompt>>,
                   update_prompt(schemas[i], id, CustomPrompt))
        /\ UNCHANGED <<live, added>>

DeleteSchema ==
    \E i \in Instances, id \in RepoIds :
        /\ Mutated(i, "delete_schema", <<id>>, delete_schema(schemas[i], id))
        /\ live' = IF delete_schema(schemas[i], id).raised = "none"
                   THEN [live EXCEPT ![i] = @ \ {id}] ELSE live
        /\ added' = IF delete_schema(schemas[i], id).raised = "none"
                    THEN added \ {id} ELSE added

\* a SchemaManager is constructed anew: it loads the file, or the defaults
Load ==
    \E i \in Instances :
        /\ ops < MaxOps
        /\ schemas' = [schemas EXCEPT ![i] = load_schemas(schemas_file)]
        /\ live' = [live EXCEPT ![i] = StoredIds(load_schemas(schemas_file))]
        /\ call' = [op |-> "load", args |-> <<i>>, raised |-> "none", result |-> <<>>]
        /\ ops' = ops + 1
        /\ UNCHANGED <<pc, planvars, procvars, runvars, schemas_file, added, config>>

GetSchema ==
    \E i \in Instances, id \in RepoIds :
        /\ ops < MaxOps
        /\ call' = [op |-> "get_schema", args |-> <<i, id>>,
                    raised |-> get_schema(schemas[i], id).raised,
                    result |-> <<get_schema(schemas[i], id).v>>]
        /\ ops' = ops + 1
        /\ UNCHANGED <<pc, planvars, procvars, runvars, schemas, schemas_file, live, added, config>>

GetPrompt ==
    \E i \in Instances, id \in RepoIds :
        /\ ops < MaxOps
        /\ call' = [op |-> "get_prompt", args |-> <<i, id>>,
                    raised |-> get_prompt(schemas[i], id).raised,
                    result |-> <<get_prompt(schemas[i], id).v>>]
        /\ ops' = ops + 1
        /\ UNCHANGED <<pc, planvars, procvars, runvars, schemas, schemas_file, live, added, config>>

NextRepo ==
    \/ AddCustomSchema \/ UpdateSchema \/ UpdatePrompt \/ DeleteSchema
    \/ Load \/ GetSchema \/ GetPrompt
SpecRepo == Init /\ [][NextRepo]_vars

\* C23: after any sequence of add_custom_schema, update_schema and
\* delete_schema calls every schema document stored in a repository, hence
\* every schema get_schema hands out, is a valid Draft-7 schema document.
C23_StoredSchemasValid ==
    \A i \in Instances : \A id \in StoredIds(schemas[i]) :
        CheckSchemaPasses(schemas[i][id].schema)

RepoUnchanged == schemas' = schemas /\ schemas_file' = schemas_file

\* C24: get_schema(id) and get_prompt(id) succeed exactly when id is stored
\* (built in or added, and not deleted since); otherwise they fail with the
\* not-found error and leave the repository unchanged, and update and
\* delete of an id that is not stored fail the same way and change nothing.
C24_GetIffStored ==
    [][ /\ call'.op \in {"get_schema", "get_prompt"}
            => /\ call'.raised = (IF call'.args[2] \in live[call'.args[1]]
                                  THEN "none" ELSE "ValueError")
               /\ RepoUnchanged
        /\ (call'.op \in {"update_schema", "update_prompt", "delete_schema"}
              /\ call'.args[2] \notin live[call'.args[1]])
            => (call'.raised = "ValueError" /\ RepoUnchanged) ]_vars

C24_Witness ==
    /\ call.op = "get_schema"
    /\ call.raised = "ValueError"
    /\ call.args[2] = "single_choice"

FailsAddChecks(name, doc) == name = "" \/ doc \in {EmptyDoc, NotADict, MalformedDoc}

\* C28: add_custom_schema with an empty name, an empty or non-dict schema or
\* a schema that is not valid Draft-7 raises and leaves the instance's map
\* and the schemas file unchanged; a call that passes the checks puts the
\* entry in the map and writes the map to the file.
C28_AddChecksBeforeChange ==
    [][ call'.op = "add_custom_schema"
            => IF FailsAddChecks(call'.args[2], call'.args[3])
               THEN call'.raised = "ValueError" /\ RepoUnchanged
               ELSE /\ call'.raised = "none"
                    /\ schemas'[call'.args[1]][call'.args[2]].schema = call'.args[3]
                    /\ schemas_file' = FileOf(schemas'[call'.args[1]]) ]_vars

C28_Witness ==
    /\ call.op = "add_custom_schema"
    /\ call.raised = "ValueError"
    /\ call.args[3] = MalformedDoc
    /\ schemas_file.exists

\* C30: with two instances sharing the file, under any interleaving of
\* their steps the file holds every question type that was added and not
\* deleted: a save by one instance never erases what the other persisted.
C30_NoLostUpdate ==
    schemas_file.exists => added \subseteq StoredIds(schemas_file.content)

\* ------------------------------------------------------------------------
\* Normalisation applied to its own output
\* ------------------------------------------------------------------------
\* the option and answer normalisation of _process_single_item on a record
Renormalized(rec) ==
    Put(Put(rec, "options", format_options(Get(rec, "options")).v),
        "answer", format_answer(Get(rec, "answer")).v)

\* C27: normalisation is idempotent: _format_options applied to its result,
\* _format_answer applied to its result, and both applied to a record that
\* _process_single_item returned, give the same value again.
C27_NormalizationIdempotent ==
    /\ (pc = "format_options" /\ exc = "none")
        => (~format_options(ret).raised /\ format_options(ret).v = ret)
    /\ (pc = "format_answer" /\ exc = "none")
        => (~format_answer(ret).raised /\ format_answer(ret).v = ret)
    /\ (pc = "process_item" /\ ret.t = "dict")
        => Renormalized(ret) = ret

C27_Witness ==
    /\ pc = "process_item"
    /\ ret.t = "dict"
    /\ Get(ret, "answer").t = "list"
    /\ Len(Get(ret, "answer").v) = 2
    /\ json_str.value # ret

\* ------------------------------------------------------------------------
\* src/config_manager.py: the API keys of the configuration
\* ------------------------------------------------------------------------
\* os.path.dirname(self.config_file): "config.json" has no directory part
ConfigDir == ""

\* _save_config: os.makedirs("") raises, whatever exist_ok is, and the
\* except clause raises Exception in its place
save_config(dir) == IF dir = "" THEN "Exception" ELSE "none"

\* get_api_key
get_api_key(cfg, mt) == IF mt \in DOMAIN cfg THEN cfg[mt] ELSE ""

\* save_api_key: the type check, the assignment, then _save_config
save_api_key(cfg, mt, key) ==
    IF mt \notin {"deepseek", "qwen"} THEN [raised |-> "ValueError", config |-> cfg]
    ELSE [raised |-> save_config(ConfigDir), config |-> [cfg EXCEPT ![mt] = key]]

SaveApiKey ==
    \E mt \in ModelTypes \cup {"other"}, key \in {"", "k1", "k2", "k3"} :
        /\ config' = save_api_key(config, mt, key).config
        /\ call' = [op |-> "save_api_key", args |-> <<mt, key>>,
                    raised |-> save_api_key(config, mt, key).raised, result |-> <<>>]
        /\ UNCHANGED <<pc, planvars, procvars, runvars, repovars>>

GetApiKey ==
    \E mt \in ModelTypes \cup {"other"} :
        /\ call' = [op |-> "get_api_key", args |-> <<mt>>, raised |-> "none",
                    result |-> <<get_api_key(config, mt)>>]
        /\ UNCHANGED <<pc, planvars, procvars, runvars, repovars, config>>

NextConfig == SaveApiKey \/ GetApiKey
SpecConfig == Init /\ [][NextConfig]_vars

\* C29: save_api_key is all-or-nothing on the configuration in memory:
\* either it completes and get_api_key(model_type) returns the new key, or
\* it raises and get_api_key(model_type) returns the key held before.
C29_SaveKeyAllOrNothing ==
    [][ call'.op = "save_api_key"
            => get_api_key(config', call'.args[1])
                 = (IF call'.raised = "none" THEN call'.args[2]
                    ELSE get_api_key(config, call'.args[1])) ]_vars

====
